---- MODULE Spec2Model ----
(***************************************************************************)
(* QuickSight dashboard backup (src/quicksight_dashboard_backup.py).       *)
(*                                                                         *)
(* The model follows backup_all_dashboards: account resolution,            *)
(* enumeration, the submission pool (execute_phase_1_start_jobs), the      *)
(* barrier, the monitoring pool (execute_phase_2_monitor_jobs) and the     *)
(* artifact sink (download_file, upload_to_s3, save_file_locally).         *)
(*                                                                         *)
(* Python strings are sequences of one-character strings. A Python value   *)
(* that may or may not be a string is a record [t, v]: t = "str" with the  *)
(* characters in v, or t = "other" for a value of another type.            *)
(* The remote service, the artifact fetch and the two destinations are     *)
(* the environment: each call draws its answer from a small set.           *)
(***************************************************************************)
EXTENDS Naturals, Integers, Sequences, FiniteSets, Bags, TLC

(***************************************************************************)
(* Program constants (lines 41-55).                                        *)
(***************************************************************************)
MAX_RETRIES == 7

BASE_DELAY_SECONDS == 4

EXPORT_START_MAX_RETRIES == 10

EXPORT_START_BASE_DELAY_SECONDS == 5

FILENAME_MAX_LENGTH == 200

MAX_EXPORT_START_WORKERS == 3

MAX_MONITOR_WORKERS == 32

(***************************************************************************)
(* Bounds of the model.                                                    *)
(***************************************************************************)
\* the largest batch one enumeration returns
MaxItems == 3

\* the number of runs of backup_all_dashboards in one process
MaxRuns == 3

\* the runs of equal characters a name under study is built of, at most
MaxSegments == 3

\* the dashboards of the crowded batch
MaxCrowd == 4

(***************************************************************************)
(* Python strings. A string is the sequence of its runs: a run [c, n] is   *)
(* n >= 1 times the character c, and neighbouring runs differ in c, so     *)
(* that equal strings are equal sequences. Text gives the string of a      *)
(* tuple of characters.                                                    *)
(***************************************************************************)
SetMax(S) == CHOOSE x \in S : \A y \in S : y <= x

Run(c, n) == [c |-> c, n |-> n]

\* the string of a sequence of runs: empty runs dropped, equal neighbours merged
RECURSIVE Normalize(_)
Normalize(rs) ==
    IF rs = <<>> THEN <<>>
    ELSE IF rs[1].n = 0 THEN Normalize(Tail(rs))
    ELSE IF Len(rs) = 1 THEN rs
    ELSE IF rs[2].n = 0 THEN Normalize(<<rs[1]>> \o SubSeq(rs, 3, Len(rs)))
    ELSE IF rs[1].c = rs[2].c
    THEN Normalize(<<Run(rs[1].c, rs[1].n + rs[2].n)>> \o SubSeq(rs, 3, Len(rs)))
    ELSE <<rs[1]>> \o Normalize(Tail(rs))

Text(chars) == Normalize([i \in 1..Len(chars) |-> Run(chars[i], 1)])

\* len(s)
RECURSIVE Length(_)
Length(s) == IF s = <<>> THEN 0 ELSE s[1].n + Length(Tail(s))

\* s + t
Concat(s, t) == Normalize(s \o t)

\* s[:k], k >= 0
RECURSIVE Prefix(_, _)
Prefix(s, k) ==
    IF k <= 0 \/ s = <<>> THEN <<>>
    ELSE IF s[1].n >= k THEN <<Run(s[1].c, k)>>
    ELSE <<s[1]>> \o Prefix(Tail(s), k - s[1].n)

\* the last k characters of s
RECURSIVE Suffix(_, _)
Suffix(s, k) ==
    IF k <= 0 \/ s = <<>> THEN <<>>
    ELSE LET last == s[Len(s)]
         IN  IF last.n >= k THEN <<Run(last.c, k)>>
             ELSE Suffix(SubSeq(s, 1, Len(s) - 1), k - last.n) \o <<last>>

Str(text) == [t |-> "str", v |-> text]

NotAString == [t |-> "other", v |-> <<>>]

\* s.startswith(p)
StartsWith(s, p) == Length(s) >= Length(p) /\ Prefix(s, Length(p)) = p

\* s.endswith(p)
EndsWith(s, p) == Length(s) >= Length(p) /\ Suffix(s, Length(p)) = p

\* s.rstrip(ch)
RStrip(s, ch) ==
    IF s # <<>> /\ s[Len(s)].c = ch THEN SubSeq(s, 1, Len(s) - 1) ELSE s

\* s.split('/')[-1]
LastSegment(s) ==
    LET cut == {i \in 1..Len(s) : s[i].c = "/"}
    IN  IF cut = {} THEN s ELSE SubSeq(s, SetMax(cut) + 1, Len(s))

(***************************************************************************)
(* sanitize_filename (lines 122-144).                                      *)
(***************************************************************************)
\* the class [<>:"/\\|?*] of line 133
InvalidChars == {"<", ">", ":", "\"", "/", "\\", "|", "?", "*"}

\* characters of the class [\x00-\x1f\x7f-\x9f] of line 135
ControlChars == {"\t", "\n", "\r", "\f"}

\* the characters strip(' .') removes, line 137
StripChars == {" ", "."}

UnnamedDashboard ==
    Text(<<"u","n","n","a","m","e","d","_","d","a","s","h","b","o","a","r","d">>)

\* re.sub(class, '_', s)
Substitute(s, class) ==
    Normalize([i \in 1..Len(s) |-> Run(IF s[i].c \in class THEN "_" ELSE s[i].c, s[i].n)])

RECURSIVE StripLeft(_)
StripLeft(s) ==
    IF s = <<>> \/ s[1].c \notin StripChars THEN s ELSE StripLeft(Tail(s))

RECURSIVE StripRight(_)
StripRight(s) ==
    IF s = <<>> \/ s[Len(s)].c \notin StripChars THEN s
    ELSE StripRight(SubSeq(s, 1, Len(s) - 1))

\* s.strip(' .')
Strip(s) == StripRight(StripLeft(s))

Mut_sanitize_filename(filename) ==
    LET noInvalid == Substitute(filename, InvalidChars)
        noControl == Substitute(noInvalid, ControlChars)
        stripped  == Strip(noControl)
        named     == IF stripped = <<>> THEN UnnamedDashboard ELSE stripped
    IN  IF Length(named) > FILENAME_MAX_LENGTH
        THEN Prefix(named, FILENAME_MAX_LENGTH - 1)
        ELSE named

sanitize_filename(filename) ==
    LET noInvalid == Substitute(filename, InvalidChars)
        noControl == Substitute(noInvalid, ControlChars)
        stripped  == Strip(noControl)
        named     == IF stripped = <<>> THEN UnnamedDashboard ELSE stripped
    IN  IF Length(named) > FILENAME_MAX_LENGTH
        THEN Prefix(named, FILENAME_MAX_LENGTH)
        ELSE named

\* the fixed extension of line 493
QsExt == Text(<<".", "q", "s">>)

\* filename = f"{safe_filename}.qs", lines 492-493
ArtifactFilename(name) == Concat(sanitize_filename(name), QsExt)

\* the name both destinations derive again from the filename, lines 538 and 572
SinkFilename(filename) ==
    IF EndsWith(filename, QsExt)
    THEN Concat(sanitize_filename(Prefix(filename, Length(filename) - 3)), QsExt)
    ELSE sanitize_filename(filename)

\* the date folder of line 313, on the day of the run
DateFolder == Text(<<"2","0","2","6","-","1","1","-","0","4">>)

Slash == Text(<<"/">>)

\* generate_s3_key (lines 302-323)
generate_s3_key(prefix, filename) ==
    IF prefix # <<>>
    THEN Concat(Concat(Concat(Concat(RStrip(prefix, "/"), Slash), DateFolder), Slash), filename)
    ELSE Concat(Concat(DateFolder, Slash), filename)

\* validate_download_url (lines 325-335)
HttpScheme == Text(<<"h","t","t","p",":","/","/">>)

HttpsScheme == Text(<<"h","t","t","p","s",":","/","/">>)

Mut_validate_download_url(url) == url # <<>>

validate_download_url(url) ==
    url # <<>> /\ (StartsWith(url, HttpScheme) \/ StartsWith(url, HttpsScheme))

(***************************************************************************)
(* The account's dashboards (list_dashboards, line 355) and the batches a  *)
(* run may enumerate.                                                      *)
(***************************************************************************)
\* "/" and 198 times "a", then " b": 201 characters
LongName == <<Run("/", 1), Run("a", 198), Run(" ", 1), Run("b", 1)>>

Dashboard(arn, name) == [Arn |-> arn, Name |-> name]

\* A: no resource reference; B: a name with characters to replace and to
\* strip; C: a name longer than FILENAME_MAX_LENGTH; X: an Arn that is no
\* string; N: a Name that is no string
DashA == Dashboard(Str(<<>>), Str(Text(<<"A">>)))

DashB == Dashboard(Str(Text(<<"a","r","n","/","b">>)), Str(Text(<<"B","/","1",".">>)))

DashC == Dashboard(Str(Text(<<"a","r","n","/","c">>)), Str(LongName))

DashX == Dashboard(NotAString, Str(Text(<<"X">>)))

DashN == Dashboard(Str(Text(<<"a","r","n","/","n">>)), NotAString)

\* another ARN with the last segment of B's
DashD == Dashboard(Str(Text(<<"b","r","n","/","b">>)), Str(Text(<<"D">>)))

\* another dashboard whose name is B's once sanitized
DashE == Dashboard(Str(Text(<<"a","r","n","/","e">>)), Str(Text(<<"B","_","1">>)))

Catalogue == <<DashA, DashB, DashC, DashX, DashN, DashD, DashE>>

\* a batch of MaxCrowd dashboards that all reach the remote calls
CrowdOrder == <<2, 6, 7, 5, 3>>

Crowd == [k \in 1..MaxCrowd |-> Catalogue[CrowdOrder[k]]]

\* the dashboards of S in the order of the catalogue
BatchOf(S) ==
    [k \in 1..Cardinality(S) |->
        Catalogue[CHOOSE x \in S : Cardinality({y \in S : y < x}) = k - 1]]

\* the families of inputs a behaviour draws from:
\*   "batch"    one run of an entry point over any batch, any remote answers
\*   "scenario" one run over A, B, C with the remote answers of the scenario
\*   "process"  several runs in one process, any account configuration
\*   "pages"    one run over an account whose list may come in several pages
\*   "names"    no run: sanitize_filename applied to a name
\*   "crowd"    one run over MaxCrowd dashboards with few remote answers
\*   "ceiling"  the run over the crowd, with the max_workers argument given
Profiles == {"batch", "scenario", "process", "pages", "names", "crowd", "ceiling"}

Batches(p) ==
    CASE p = "batch" ->
            {BatchOf(S) : S \in {T \in SUBSET {1, 3, 4, 5} : Cardinality(T) <= MaxItems}}
      [] p = "scenario" -> {BatchOf({1, 2, 3})}
      [] p = "pages" -> {BatchOf(S) : S \in SUBSET {1, 2}}
      [] p \in {"crowd", "ceiling"} -> {Crowd}
      [] OTHER -> {BatchOf(S) : S \in {T \in SUBSET {1, 2} : Cardinality(T) <= 1}}

RunLimit(p) == IF p = "process" THEN MaxRuns ELSE 1

\* list_dashboards answers with a page of the account's dashboards, with a
\* NextToken when more pages follow, or raises. The service cuts pages where
\* it likes. Where the account's dashboards are not followed (the call
\* failed, outside the pages family) they are given as none.
ListResponse(ok, items, token, account) ==
    [ok |-> ok, items |-> items, NextToken |-> token, account |-> account]

ListResponses(p) ==
    {ListResponse(TRUE, b, FALSE, b) : b \in Batches(p)}
        \cup (CASE p = "scenario" -> {}
                [] p = "pages" ->
                    {ListResponse(FALSE, <<>>, FALSE, b) : b \in Batches(p)}
                        \cup UNION {{ListResponse(TRUE, SubSeq(b, 1, k), TRUE, b) :
                                        k \in 1..(Len(b) - 1)} : b \in Batches(p)}
                [] OTHER -> {ListResponse(FALSE, <<>>, FALSE, <<>>)})

\* get_dashboard_list (lines 341-361)
get_dashboard_list(resp) == IF resp.ok THEN resp.items ELSE <<>>

(***************************************************************************)
(* The environment's answers to the remote calls.                          *)
(***************************************************************************)
\* start_asset_bundle_export_job of the client: a response, or an exception
\* with its type and whether its text holds "export jobs already in progress"
StartOk == [raised |-> FALSE, type |-> "", inProgressText |-> FALSE]

\* the exceptions of the service's admission limit
LimitExceptions ==
    { [raised |-> TRUE, type |-> "LimitExceededException", inProgressText |-> FALSE],
      [raised |-> TRUE, type |-> "ClientError", inProgressText |-> TRUE] }

StartExceptions ==
    LimitExceptions \cup {[raised |-> TRUE, type |-> "ClientError", inProgressText |-> FALSE]}

Mut_IsLimitException_Any(e) == e.raised

Mut_IsLimitException(e) == e.type = "LimitExceededException"

\* the test of line 423
IsLimitException(e) == e.type = "LimitExceededException" \/ e.inProgressText

StartResponses(p, d, attempt) ==
    CASE p = "scenario" -> IF d = DashC /\ attempt < 9 THEN LimitExceptions ELSE {StartOk}
      [] p \in {"crowd", "ceiling"} ->
            IF attempt = 0
            THEN {StartOk, [raised |-> TRUE, type |-> "LimitExceededException",
                            inProgressText |-> FALSE]}
            ELSE {StartOk}
      [] OTHER -> {StartOk} \cup StartExceptions

UrlNone == <<>>

UrlFtp == Text(<<"f","t","p",":","/","/","x">>)

UrlHttp == Concat(HttpScheme, Text(<<"x">>))

UrlHttps == Concat(HttpsScheme, Text(<<"x">>))

Snapshot(http, job, url) == [Status |-> http, JobStatus |-> job, DownloadUrl |-> url]

\* what describe_asset_bundle_export_job returns when the client raises, line 385
ErrorSentinel == Snapshot(500, "ERROR", UrlNone)

InProgressStatuses == {"QUEUED_FOR_IMMEDIATE_EXECUTION", "IN_PROGRESS"}

DescribeResponses(p, d) ==
    IF p \in {"crowd", "ceiling"}
    THEN {Snapshot(200, "FAILED", UrlNone), Snapshot(200, "SUCCESSFUL", UrlHttps)}
    ELSE IF p # "scenario"
    THEN {ErrorSentinel, Snapshot(503, "SUCCESSFUL", UrlHttps), Snapshot(200, "FAILED", UrlNone),
          Snapshot(200, "CANCELLED", UrlNone)}
            \cup {Snapshot(200, s, UrlNone) : s \in InProgressStatuses}
            \cup {Snapshot(200, "SUCCESSFUL", u) : u \in {UrlNone, UrlFtp, UrlHttp, UrlHttps}}
    ELSE IF d = DashB THEN {Snapshot(200, "SUCCESSFUL", UrlHttps)}
    ELSE {Snapshot(200, "FAILED", UrlNone)}

\* describe_asset_bundle_export_job (lines 363-385): the client's answer, the
\* sentinel when it raised
describe_asset_bundle_export_job(snap) == snap

\* the artifact fetch (requests.get), the upload (put_object) and the local write
SinkWorlds(p) ==
    [fetch : IF p \in {"scenario", "crowd", "ceiling"} THEN {"200"} ELSE {"200", "404", "exception"},
     upload : {"ok", "fail"},
     write : IF p \in {"scenario", "crowd", "ceiling"} THEN {"ok"} ELSE {"ok", "fail"}]

\* the answers that can matter to a poll: none is drawn for a call that
\* the poll does not make
SinkWorldsFor(p, snap, bucket) ==
    IF snap.Status = 200 /\ snap.JobStatus = "SUCCESSFUL" /\ validate_download_url(snap.DownloadUrl)
    THEN {w \in SinkWorlds(p) :
            /\ (w.fetch # "200" => w.upload = "ok" /\ w.write = "ok")
            /\ (bucket = "" => w.upload = "ok")
            /\ (bucket # "" /\ w.upload = "ok" => w.write = "ok")}
    ELSE {[fetch |-> "200", upload |-> "ok", write |-> "ok"]}

(***************************************************************************)
(* download_file, upload_to_s3, save_file_locally (lines 522-622).         *)
(* The result names what was fetched and where the bytes went: key and     *)
(* name are <<>> when nothing was written there.                           *)
(***************************************************************************)
SinkResult(ok, fetched, uploadTried, key, writeTried, name) ==
    [ok |-> ok, fetched |-> fetched, uploadTried |-> uploadTried, key |-> key,
     writeTried |-> writeTried, name |-> name]

NoSink == SinkResult(FALSE, FALSE, FALSE, <<>>, FALSE, <<>>)

\* save_file_locally (lines 560-583)
save_file_locally(filename, w, sofar) ==
    IF w.write = "ok"
    THEN [sofar EXCEPT !.ok = TRUE, !.writeTried = TRUE, !.name = SinkFilename(filename)]
    ELSE [sofar EXCEPT !.ok = FALSE, !.writeTried = TRUE]

\* upload_to_s3 (lines 522-558): TRUE when the object was put
upload_to_s3(bucket, w) == bucket # "" /\ w.upload = "ok"

Mut_download_file(url, filename, bucket, prefix, w) ==
    IF ~validate_download_url(url) THEN NoSink
    ELSE IF w.fetch # "200" THEN NoSink
    ELSE LET fetched == [NoSink EXCEPT !.fetched = TRUE]
         IN  IF bucket # ""
             THEN IF upload_to_s3(bucket, w)
                  THEN [fetched EXCEPT !.ok = TRUE, !.uploadTried = TRUE,
                                       !.key = generate_s3_key(prefix, SinkFilename(filename))]
                  ELSE [fetched EXCEPT !.uploadTried = TRUE]
             ELSE save_file_locally(filename, w, fetched)

\* download_file (lines 585-622)
download_file(url, filename, bucket, prefix, w) ==
    IF ~validate_download_url(url) THEN NoSink
    ELSE IF w.fetch # "200" THEN NoSink
    ELSE LET fetched == [NoSink EXCEPT !.fetched = TRUE]
         IN  IF bucket # ""
             THEN IF upload_to_s3(bucket, w)
                  THEN [fetched EXCEPT !.ok = TRUE, !.uploadTried = TRUE,
                                       !.key = generate_s3_key(prefix, SinkFilename(filename))]
                  ELSE save_file_locally(filename, w, [fetched EXCEPT !.uploadTried = TRUE])
             ELSE save_file_locally(filename, w, fetched)

(***************************************************************************)
(* State.                                                                  *)
(***************************************************************************)
VARIABLES
    profile,            \* the family of inputs of this behaviour (never changes)
    session,            \* the global session is set (line 233)
    ACCOUNT_ID,         \* the global of line 90: "" when unset
    S3_BUCKET_NAME,     \* the global of line 95: "" when unset
    S3_KEY_PREFIX,      \* the global of line 96
    pc,                 \* where backup_all_dashboards is
    runs,               \* runs started in this process
    request,            \* the run's arguments and its ambient identity
    target_account_id,  \* line 930
    max_workers,        \* the monitoring pool's size (line 823), 0 before
    dashboards,         \* line 941
    starts,             \* the submission pool's work units, by item index
    jobs_to_monitor,    \* line 756
    failed_starts,      \* line 757
    monitors,           \* the monitoring pool's work units, by item index
    results,            \* line 827
    backup_results,     \* the ledger, line 275
    s3Objects,          \* objects this run put, each [path, by]
    localFiles,         \* files this run wrote, each [path, by]
    remoteLog,          \* history: the remote calls of this run, <<operation, item>>
    ev,                 \* history: what the last step of a work unit did
    accountDashboards,  \* the dashboards the account held when they were listed
    argument,           \* the string a function under study is applied to
    returned            \* what its successive applications returned

vars == <<profile, session, ACCOUNT_ID, S3_BUCKET_NAME, S3_KEY_PREFIX, pc, runs, request,
          target_account_id, max_workers, dashboards, starts, jobs_to_monitor,
          failed_starts, monitors, results, backup_results, s3Objects, localFiles,
          remoteLog, ev, accountDashboards, argument, returned>>

\* the study of a function on its own leaves the run alone, and a run the study
harness == <<argument, returned>>

config == <<profile, S3_BUCKET_NAME, S3_KEY_PREFIX>>

\* a work unit of either pool: attempt is the loop variable, calls and limits
\* count the unit's remote calls and its admission-limit errors so far
Pending == [st |-> "pending", attempt |-> 0, calls |-> 0, limits |-> 0]

Running(attempt, calls, limits) ==
    [st |-> "running", attempt |-> attempt, calls |-> calls, limits |-> limits]

Finished == [st |-> "done", attempt |-> 0, calls |-> 0, limits |-> 0]

NoEvent ==
    [kind |-> "none", item |-> 0, n |-> 0, limits |-> 0, resp |-> "", http |-> 0,
     slept |-> 0, status |-> "", sink |-> NoSink, url |-> <<>>]

Event(kind, item, n, limits, resp, http, slept, status, sink) ==
    [kind |-> kind, item |-> item, n |-> n, limits |-> limits, resp |-> resp,
     http |-> http, slept |-> slept, status |-> status, sink |-> sink, url |-> <<>>]

\* an outcome of the ledger (lines 663-667, 683-687, 733-737, 800-804, 850-854);
\* item is the index of the dashboard it is about, the timestamp is left out
Outcome(name, status, item) == [name |-> name, status |-> status, item |-> item]

\* job_info, lines 694-700
JobInfo(job_id, name, account_id, index, total) ==
    [job_id |-> job_id, name |-> name, account_id |-> account_id, index |-> index,
     total |-> total]

Put(store, path, by) == {o \in store : o.path # path} \cup {[path |-> path, by |-> by]}

InPool(units) == {i \in DOMAIN units : units[i].st = "running"}

(***************************************************************************)
(* Initial states: the process after the module is loaded.                 *)
(***************************************************************************)
AccountEnv(p) == IF p = "process" THEN {"", "111"} ELSE {"111"}

AccountParams(p) == IF p = "process" THEN {"", "333"} ELSE {""}

AmbientIdentity(p) == IF p = "process" THEN BOOLEAN ELSE {TRUE}

\* max_workers: Optional[int] = None, line 914
NoCeiling == [given |-> FALSE, value |-> 0]

Ceiling(k) == [given |-> TRUE, value |-> k]

\* the max_workers arguments of a run: the entry points pass none
MaxWorkersParams(p) ==
    IF p = "ceiling"
    THEN {NoCeiling} \cup {Ceiling(k) : k \in {-1, 0, 1, 2, MAX_MONITOR_WORKERS + 8}}
    ELSE {NoCeiling}

Prefixes == {<<>>, Text(<<"b","k","/">>)}

\* the names sanitize_filename is studied on: at most MaxSegments runs
NameChars == {"a", " ", ".", "/", "\t"}

RunLengths == {1, 199, 200}

Names ==
    LET segments == {Run(c, n) : c \in NameChars, n \in RunLengths}
    IN  {Normalize(q) : q \in UNION {[1..k -> segments] : k \in 0..MaxSegments}}

Arguments(p) == IF p = "names" THEN Names ELSE {<<>>}

InitWith(p) ==
    /\ profile = p
    /\ session = FALSE
    /\ ACCOUNT_ID \in AccountEnv(p)
    /\ S3_BUCKET_NAME \in {"", "bucket"}
    /\ S3_KEY_PREFIX \in (IF S3_BUCKET_NAME = "" THEN {<<>>} ELSE Prefixes)
    /\ pc = "idle"
    /\ runs = 0
    /\ request = [account_id |-> "", ambient |-> TRUE, max_workers |-> NoCeiling]
    /\ target_account_id = ""
    /\ max_workers = 0
    /\ dashboards = <<>>
    /\ starts = <<>>
    /\ jobs_to_monitor = EmptyBag
    /\ failed_starts = EmptyBag
    /\ monitors = <<>>
    /\ results = EmptyBag
    /\ backup_results = EmptyBag
    /\ s3Objects = {}
    /\ localFiles = {}
    /\ remoteLog = {}
    /\ ev = NoEvent
    /\ accountDashboards = <<>>
    /\ argument \in Arguments(p)
    /\ returned = <<>>

Init == InitWith("batch")

InitScenario == InitWith("scenario")

InitProcess == InitWith("process")

InitPages == InitWith("pages")

InitCrowd == InitWith("crowd")

InitCeiling == InitWith("ceiling")

(***************************************************************************)
(* backup_all_dashboards up to the enumeration (lines 926-938) with        *)
(* initialize_aws_resources (lines 237-256).                               *)
(***************************************************************************)
\* initialize_aws_resources: [raised, account]; the session is set either way
initialize_aws_resources(ambient) ==
    IF ~session
    THEN IF ACCOUNT_ID # "" THEN [raised |-> FALSE, account |-> ACCOUNT_ID]
         ELSE IF ambient THEN [raised |-> FALSE, account |-> "222"]
         ELSE [raised |-> TRUE, account |-> ""]
    ELSE [raised |-> FALSE, account |-> ACCOUNT_ID]

RunStart ==
    /\ pc \in {"idle", "done", "raised"}
    /\ runs < RunLimit(profile)
    /\ \E account_id \in AccountParams(profile), ambient \in AmbientIdentity(profile),
          ceiling \in MaxWorkersParams(profile) :
        LET init   == initialize_aws_resources(ambient)
            target == IF account_id # "" THEN account_id ELSE init.account
            raised == init.raised \/ target = ""
        IN  /\ session' = TRUE
            /\ ACCOUNT_ID' = init.account
            /\ request' = [account_id |-> account_id, ambient |-> ambient,
                            max_workers |-> ceiling]
            /\ target_account_id' = IF raised THEN "" ELSE target
            /\ pc' = IF raised THEN "raised" ELSE "enumerate"
            \* backup_results.clear(), line 938
            /\ backup_results' = IF raised THEN backup_results ELSE EmptyBag
    /\ runs' = runs + 1
    /\ max_workers' = 0
    /\ dashboards' = <<>>
    /\ starts' = <<>>
    /\ jobs_to_monitor' = EmptyBag
    /\ failed_starts' = EmptyBag
    /\ monitors' = <<>>
    /\ results' = EmptyBag
    /\ s3Objects' = {}
    /\ localFiles' = {}
    /\ remoteLog' = {}
    /\ ev' = NoEvent
    /\ accountDashboards' = <<>>
    /\ UNCHANGED <<config, harness>>

(***************************************************************************)
(* Enumeration (lines 941-947) and the submission pool's set-up: one work  *)
(* unit per dashboard is submitted to the executor (lines 759-776).        *)
(***************************************************************************)
Mut_NothingToBackup(ds) == FALSE

\* not dashboards, line 943
NothingToBackup(ds) == ds = <<>>

Enumerate ==
    /\ pc = "enumerate"
    /\ \E resp \in ListResponses(profile) :
        /\ dashboards' = get_dashboard_list(resp)
        /\ accountDashboards' = resp.account
        /\ pc' = IF NothingToBackup(dashboards') THEN "done" ELSE "phase1"
        /\ starts' = [i \in 1..Len(dashboards') |-> Pending]
    /\ remoteLog' = remoteLog \cup {<<"list", 0>>}
    /\ UNCHANGED <<config, harness, session, ACCOUNT_ID, runs, request, target_account_id,
                   max_workers, jobs_to_monitor, failed_starts, monitors, results,
                   backup_results, s3Objects, localFiles, ev>>

(***************************************************************************)
(* The submission pool (execute_phase_1_start_jobs, lines 743-806).        *)
(* A unit that returns or raises is collected by the as_completed loop     *)
(* (lines 780-804) in the same step.                                       *)
(***************************************************************************)
\* lines 787-792: the result of a unit that returned
CollectStarted(job) ==
    /\ jobs_to_monitor' = jobs_to_monitor (+) SetToBag({job})
    /\ failed_starts' = failed_starts

Mut_CollectFailedStart(outcome) ==
    /\ failed_starts' = failed_starts
    /\ jobs_to_monitor' = jobs_to_monitor

CollectFailedStart(outcome) ==
    /\ failed_starts' = failed_starts (+) SetToBag({outcome})
    /\ jobs_to_monitor' = jobs_to_monitor

\* a worker of the pool is free and the unit is the next of the queue
Mut_StartWorkerFree(i) == \A j \in DOMAIN starts : j < i => starts[j].st # "pending"

StartWorkerFree(i) ==
    /\ Cardinality(InPool(starts)) < MAX_EXPORT_START_WORKERS
    /\ \A j \in DOMAIN starts : j < i => starts[j].st # "pending"

Mut_MissingArn(arn) == arn.t = "none"

\* not arn, line 658
MissingArn(arn) == arn.t = "str" /\ arn.v = <<>>

\* start_single_export_job up to the first remote call (lines 648-672)
StartUnit(i) ==
    /\ starts[i].st = "pending"
    /\ StartWorkerFree(i)
    /\ LET arn  == dashboards[i].Arn
           name == dashboards[i].Name
       IN  IF MissingArn(arn)
           THEN \* lines 658-668
                /\ starts' = [starts EXCEPT ![i] = Finished]
                /\ CollectFailedStart(Outcome(name, "MISSING_ARN", i))
                /\ ev' = Event("submit", i, 0, 0, "", 0, 0, "MISSING_ARN", NoSink)
           ELSE IF arn.t # "str"
           THEN \* arn.split raises (line 670); collected at lines 796-804
                /\ starts' = [starts EXCEPT ![i] = Finished]
                /\ CollectFailedStart(Outcome(name, "START_EXCEPTION", i))
                /\ ev' = Event("submit", i, 0, 0, "", 0, 0, "START_EXCEPTION", NoSink)
           ELSE /\ starts' = [starts EXCEPT ![i] = Running(0, 0, 0)]
                /\ UNCHANGED <<jobs_to_monitor, failed_starts>>
                /\ ev' = Event("submit", i, 0, 0, "", 0, 0, "", NoSink)
    /\ UNCHANGED <<config, harness, accountDashboards, session, ACCOUNT_ID, pc, runs, request, target_account_id,
                   max_workers, dashboards, monitors, results, backup_results,
                   s3Objects, localFiles, remoteLog>>

\* line 425: another attempt follows an admission-limit error
Mut_RetryStart(attempt) == attempt < EXPORT_START_MAX_RETRIES - 2

\* line 425
RetryStart(attempt) == attempt < EXPORT_START_MAX_RETRIES - 1

Mut_StartDelay(attempt) == BASE_DELAY_SECONDS * (2 ^ attempt)

\* line 426
StartDelay(attempt) == EXPORT_START_BASE_DELAY_SECONDS * (2 ^ attempt)

\* One iteration of the loop of start_asset_bundle_export_job (lines 415-440)
\* and, when it returns, the rest of start_single_export_job (lines 677-702).
StartAttempt(i) ==
    /\ starts[i].st = "running"
    /\ \E e \in StartResponses(profile, dashboards[i], starts[i].attempt) :
        LET u       == starts[i]
            arn     == dashboards[i].Arn
            name    == dashboards[i].Name
            calls   == u.calls + 1
            limits  == IF e \in LimitExceptions THEN u.limits + 1 ELSE u.limits
            class   == IF ~e.raised THEN "ok"
                       ELSE IF e \in LimitExceptions THEN "limit" ELSE "other"
            retry   == e.raised /\ IsLimitException(e) /\ RetryStart(u.attempt)
                        /\ u.attempt + 1 < EXPORT_START_MAX_RETRIES
            job     == JobInfo(LastSegment(arn.v), name, target_account_id, i,
                               Len(dashboards))
        IN  IF ~e.raised
            THEN /\ starts' = [starts EXCEPT ![i] = Finished]
                 /\ CollectStarted(job)
                 /\ ev' = Event("start", i, calls, limits, class, 0, 0, "STARTED", NoSink)
            ELSE IF retry
            THEN /\ starts' = [starts EXCEPT ![i] = Running(u.attempt + 1, calls, limits)]
                 /\ UNCHANGED <<jobs_to_monitor, failed_starts>>
                 /\ ev' = Event("start", i, calls, limits, class, 0,
                                StartDelay(u.attempt), "", NoSink)
            ELSE /\ starts' = [starts EXCEPT ![i] = Finished]
                 /\ CollectFailedStart(Outcome(name, "EXPORT_START_FAILED", i))
                 /\ ev' = Event("start", i, calls, limits, class, 0,
                                IF IsLimitException(e) /\ RetryStart(u.attempt)
                                THEN StartDelay(u.attempt) ELSE 0,
                                "EXPORT_START_FAILED", NoSink)
    /\ remoteLog' = remoteLog \cup {<<"start", i>>}
    /\ UNCHANGED <<config, harness, accountDashboards, session, ACCOUNT_ID, pc, runs, request, target_account_id,
                   max_workers, dashboards, monitors, results, backup_results,
                   s3Objects, localFiles>>

Mut_Phase1Joined == \E i \in DOMAIN starts : starts[i].st = "done"

\* the with block of line 771 is left when every unit was collected
Phase1Joined == \A i \in DOMAIN starts : starts[i].st = "done"

Mut_MonitorPoolSize(n) == IF MAX_MONITOR_WORKERS < n THEN MAX_MONITOR_WORKERS ELSE n - 1

\* min(MAX_MONITOR_WORKERS, len(jobs_to_monitor)), line 823
MonitorPoolSize(n) == IF MAX_MONITOR_WORKERS < n THEN MAX_MONITOR_WORKERS ELSE n

\* the pool size of the monitoring stage, lines 822-823: the argument
\* unless it is None
Phase2Workers(param, n) == IF ~param.given THEN MonitorPoolSize(n) ELSE param.value

\* ThreadPoolExecutor(max_workers=...), line 830, raises ValueError for a
\* size that is not positive
ExecutorRaises(size) == size <= 0

Mut_NoJobsStarted(jobs) == FALSE

\* not jobs_to_monitor, line 957
NoJobsStarted(jobs) == jobs = EmptyBag

\* The barrier: execute_phase_1_start_jobs returns (line 806), the failed
\* starts are merged (line 955), and either the run ends (lines 957-959) or the
\* monitoring pool is set up with one unit per job (lines 822-835).
Phase1Complete ==
    /\ pc = "phase1"
    /\ Phase1Joined
    /\ backup_results' = backup_results (+) failed_starts
    /\ IF NoJobsStarted(jobs_to_monitor)
       THEN /\ pc' = "done"
            /\ UNCHANGED <<monitors, max_workers>>
       ELSE \E size \in {Phase2Workers(request.max_workers, BagCardinality(jobs_to_monitor))} :
            /\ max_workers' = size
            /\ IF ExecutorRaises(size)
               THEN /\ pc' = "raised"
                    /\ UNCHANGED monitors
               ELSE /\ pc' = "phase2"
                    /\ monitors' = [i \in {job.index : job \in BagToSet(jobs_to_monitor)}
                                        |-> Pending]
    /\ UNCHANGED <<config, harness, accountDashboards, session, ACCOUNT_ID, runs, request, target_account_id,
                   dashboards, starts, jobs_to_monitor, failed_starts, results,
                   s3Objects, localFiles, remoteLog, ev>>

(***************************************************************************)
(* The monitoring pool (execute_phase_2_monitor_jobs, lines 808-856).      *)
(* A unit that returns or raises is collected by the as_completed loop     *)
(* (lines 839-854) in the same step.                                       *)
(***************************************************************************)
JobOf(i) == CHOOSE job \in BagToSet(jobs_to_monitor) : job.index = i

\* monitor_and_download_job up to check_job_status_and_retry (lines 722-728),
\* once a worker of the pool is free
MonitorUnit(i) ==
    /\ monitors[i].st = "pending"
    /\ Cardinality(InPool(monitors)) < max_workers
    /\ monitors' = [monitors EXCEPT ![i] = Running(0, 0, 0)]
    /\ ev' = NoEvent
    /\ UNCHANGED <<config, harness, accountDashboards, session, ACCOUNT_ID, pc, runs, request, target_account_id,
                   max_workers, dashboards, starts, jobs_to_monitor, failed_starts,
                   results, backup_results, s3Objects, localFiles, remoteLog>>

\* line 485
PollDelay(attempt) == BASE_DELAY_SECONDS * (2 ^ attempt)

\* line 469: the loop runs another iteration
Mut_PollAgain(attempt) == attempt < MAX_RETRIES

PollAgain(attempt) == attempt + 1 < MAX_RETRIES

Mut_CollectMonitored_Overwrite(i, name, status) ==
    /\ monitors' = [monitors EXCEPT ![i] = Finished]
    /\ results' = SetToBag({Outcome(name, status, i)})

Mut_CollectMonitored(i, name, status) ==
    /\ monitors' = [monitors EXCEPT ![i] = Finished]
    /\ results' = IF status = "MONITOR_EXCEPTION" THEN results
                  ELSE results (+) SetToBag({Outcome(name, status, i)})

\* lines 844-845 and 850-854: the unit's result is appended
CollectMonitored(i, name, status) ==
    /\ monitors' = [monitors EXCEPT ![i] = Finished]
    /\ results' = results (+) SetToBag({Outcome(name, status, i)})

\* The status one iteration of the loop of check_job_status_and_retry ends
\* with (lines 474-516): "" when the loop goes on. named: the dashboard's name
\* is a string, else sanitize_filename raises (line 133) and the collector
\* records the exception (lines 847-854); persisted: download_file returned True.
Mut_check_job_status_and_retry(http, job_status, attempt, named, persisted) ==
    IF http # 200 THEN "ERROR"
    ELSE IF job_status \in InProgressStatuses
    THEN IF PollAgain(attempt) THEN "" ELSE "TIMEOUT"
    ELSE IF job_status = "SUCCESSFUL"
    THEN IF ~named THEN "MONITOR_EXCEPTION"
         ELSE IF persisted THEN "SUCCESS" ELSE "DOWNLOAD_FAILED"
    ELSE job_status

Mut_check_job_status_and_retry_IgnoreDownload(http, job_status, attempt, named, persisted) ==
    IF http # 200 THEN "ERROR"
    ELSE IF job_status \in InProgressStatuses
    THEN IF PollAgain(attempt) THEN "" ELSE "TIMEOUT"
    ELSE IF job_status = "SUCCESSFUL"
    THEN IF ~named THEN "MONITOR_EXCEPTION" ELSE "SUCCESS"
    ELSE IF job_status = "FAILED" THEN "FAILED"
    ELSE "UNEXPECTED_STATUS"

Mut_check_job_status_and_retry_RetryDownload(http, job_status, attempt, named, persisted) ==
    IF http # 200 THEN "ERROR"
    ELSE IF job_status \in InProgressStatuses
    THEN IF PollAgain(attempt) THEN "" ELSE "TIMEOUT"
    ELSE IF job_status = "SUCCESSFUL"
    THEN IF ~named THEN "MONITOR_EXCEPTION"
         ELSE IF persisted THEN "SUCCESS"
         ELSE IF PollAgain(attempt) THEN "" ELSE "DOWNLOAD_FAILED"
    ELSE IF job_status = "FAILED" THEN "FAILED"
    ELSE "UNEXPECTED_STATUS"

Mut_check_job_status_and_retry_StatusFirst(http, job_status, attempt, named, persisted) ==
    IF job_status \in InProgressStatuses
    THEN IF PollAgain(attempt) THEN "" ELSE "TIMEOUT"
    ELSE IF job_status = "SUCCESSFUL"
    THEN IF ~named THEN "MONITOR_EXCEPTION"
         ELSE IF persisted THEN "SUCCESS" ELSE "DOWNLOAD_FAILED"
    ELSE IF http # 200 THEN "ERROR"
    ELSE IF job_status = "FAILED" THEN "FAILED"
    ELSE "UNEXPECTED_STATUS"

check_job_status_and_retry(http, job_status, attempt, named, persisted) ==
    IF http # 200 THEN "ERROR"
    ELSE IF job_status \in InProgressStatuses
    THEN IF PollAgain(attempt) THEN "" ELSE "TIMEOUT"
    ELSE IF job_status = "SUCCESSFUL"
    THEN IF ~named THEN "MONITOR_EXCEPTION"
         ELSE IF persisted THEN "SUCCESS" ELSE "DOWNLOAD_FAILED"
    ELSE IF job_status = "FAILED" THEN "FAILED"
    ELSE "UNEXPECTED_STATUS"

\* One iteration of the loop of check_job_status_and_retry (lines 469-512),
\* the TIMEOUT after the last one (lines 514-516), and the unit's return
\* (lines 733-737). The unit's limits count its polls answered queued or
\* in progress.
PollAttempt(i) ==
    /\ monitors[i].st = "running"
    /\ \E snap \in DescribeResponses(profile, dashboards[i]) :
       \E w \in SinkWorldsFor(profile, snap, S3_BUCKET_NAME) :
       \E job \in {JobOf(i)} :
       \E sink \in {IF snap.Status = 200 /\ snap.JobStatus = "SUCCESSFUL" /\ job.name.t = "str"
                    THEN download_file(snap.DownloadUrl, ArtifactFilename(job.name.v),
                                       S3_BUCKET_NAME, S3_KEY_PREFIX, w)
                    ELSE NoSink} :
        LET u          == monitors[i]
            response   == describe_asset_bundle_export_job(snap)
            job_status == response.JobStatus
            http       == response.Status
            polls      == u.calls + 1
            waiting    == http = 200 /\ job_status \in InProgressStatuses
            pendings   == IF waiting THEN u.limits + 1 ELSE u.limits
            status     == check_job_status_and_retry(http, job_status, u.attempt,
                                                     job.name.t = "str", sink.ok)
            slept      == IF waiting THEN PollDelay(u.attempt) ELSE 0
        IN  /\ IF status = ""
               THEN /\ monitors' = [monitors EXCEPT
                                        ![i] = Running(u.attempt + 1, polls, pendings)]
                    /\ results' = results
               ELSE CollectMonitored(i, job.name, status)
            /\ s3Objects' = IF sink.key # <<>> THEN Put(s3Objects, sink.key, i)
                            ELSE s3Objects
            /\ localFiles' = IF sink.name # <<>> THEN Put(localFiles, sink.name, i)
                             ELSE localFiles
            /\ remoteLog' = remoteLog \cup {<<"describe", i>>}
                                \cup (IF sink.fetched THEN {<<"fetch", i>>} ELSE {})
            /\ ev' = [Event("poll", i, polls, pendings, job_status, http, slept, status,
                             sink) EXCEPT !.url = response.DownloadUrl]
    /\ UNCHANGED <<config, harness, accountDashboards, session, ACCOUNT_ID, pc, runs, request, target_account_id,
                   max_workers, dashboards, starts, jobs_to_monitor, failed_starts,
                   backup_results>>

\* the with block of line 830 is left when every unit was collected
Phase2Joined == \A i \in DOMAIN monitors : monitors[i].st = "done"

\* execute_phase_2_monitor_jobs returns and its results are merged
\* (lines 856, 966-969)
Phase2Complete ==
    /\ pc = "phase2"
    /\ Phase2Joined
    /\ backup_results' = backup_results (+) results
    /\ pc' = "done"
    /\ UNCHANGED <<config, harness, accountDashboards, session, ACCOUNT_ID, runs, request, target_account_id,
                   max_workers, dashboards, starts, jobs_to_monitor, failed_starts,
                   monitors, results, s3Objects, localFiles, remoteLog, ev>>

(***************************************************************************)
(* The report of the entry points (lines 1043-1052).                       *)
(***************************************************************************)
Successful == {o \in BagToSet(backup_results) : o.status = "SUCCESS"}

ReportTotal == BagCardinality(backup_results)

ReportSuccessful ==
    LET copies[S \in SUBSET Successful] ==
            IF S = {} THEN 0
            ELSE LET o == CHOOSE x \in S : TRUE
                 IN  CopiesIn(o, backup_results) + copies[S \ {o}]
    IN  copies[Successful]

(***************************************************************************)
(* Specifications.                                                         *)
(***************************************************************************)
Next ==
    \/ RunStart
    \/ Enumerate
    \/ \E i \in DOMAIN starts : StartUnit(i)
    \/ \E i \in DOMAIN starts : StartAttempt(i)
    \/ Phase1Complete
    \/ \E i \in DOMAIN monitors : MonitorUnit(i)
    \/ \E i \in DOMAIN monitors : PollAttempt(i)
    \/ Phase2Complete

\* one run of an entry point over any batch
Spec == Init /\ [][Next]_vars

\* one run whose remote calls and sleeps return and whose pools' threads are
\* scheduled: a step is taken whenever one can be
SpecLive == Init /\ [][Next]_vars /\ WF_vars(Next)

\* the end-to-end scenario
SpecScenario == InitScenario /\ [][Next]_vars

\* several runs in one process
SpecProcess == InitProcess /\ [][Next]_vars

\* one run over an account whose list comes in one page or several
SpecPages == InitPages /\ [][Next]_vars

\* one run over a batch that keeps both pools busy
SpecCrowd == InitCrowd /\ [][Next]_vars

SpecCeiling == InitCeiling /\ [][Next]_vars

(***************************************************************************)
(* sanitize_filename on its own: applied to a name, then to what it        *)
(* returned.                                                               *)
(***************************************************************************)
InitSanitize == InitWith("names")

SanitizeName ==
    /\ Len(returned) < 2
    /\ returned' = Append(returned, sanitize_filename(IF returned = <<>> THEN argument
                                                      ELSE returned[Len(returned)]))
    /\ UNCHANGED <<config, session, ACCOUNT_ID, pc, runs, request, target_account_id,
                   max_workers, dashboards, starts, jobs_to_monitor, failed_starts,
                   monitors, results, backup_results, s3Objects, localFiles, remoteLog,
                   ev, accountDashboards, argument>>

NextSanitize == SanitizeName

SpecSanitize == InitSanitize /\ [][NextSanitize]_vars

(***************************************************************************)
(* Properties.                                                             *)
(***************************************************************************)
Items == 1..Len(dashboards)

Ledger == BagToSet(backup_results)

OutcomesOf(i) == {o \in Ledger : o.item = i}

\* the statuses section 7 of the specification lists
ListedStatuses ==
    {"SUCCESS", "MISSING_ARN", "EXPORT_START_FAILED", "DOWNLOAD_FAILED", "FAILED",
     "ERROR", "UNEXPECTED_STATUS", "TIMEOUT"}

\* the statuses the collectors record for a unit that raised
RaisedStatuses == {"START_EXCEPTION", "MONITOR_EXCEPTION"}

\* C1: when a run over a batch returns, the ledger holds exactly one outcome
\* for every enumerated item: as many outcomes as items, none dropped, none
\* recorded twice.
C1_OneOutcomePerItem ==
    pc = "done" =>
        /\ BagCardinality(backup_results) = Len(dashboards)
        /\ \A i \in Items :
            /\ Cardinality(OutcomesOf(i)) = 1
            /\ \A o \in OutcomesOf(i) : CopiesIn(o, backup_results) = 1

\* a run over three items, of which one failed to start and one was monitored
C1_Witness ==
    /\ pc = "done"
    /\ Len(dashboards) = 3
    /\ \E o \in Ledger : o.status = "MISSING_ARN"
    /\ \E o \in Ledger : o.status = "SUCCESS"

\* C2 as stated: every recorded outcome carries one of the eight listed
\* statuses, and an item has one status only.
C2_ListedStatusOnly ==
    /\ \A o \in Ledger : o.status \in ListedStatuses
    /\ \A o1, o2 \in Ledger : o1.item = o2.item => o1.status = o2.status

\* C2 amended: every outcome recorded by a stage or merged into the ledger
\* carries one of the eight listed statuses or, for a work unit that raised,
\* START_EXCEPTION or MONITOR_EXCEPTION; an item has one status only.
C2_StatusClosed ==
    /\ \A o \in Ledger \cup BagToSet(failed_starts) \cup BagToSet(results) :
            o.status \in ListedStatuses \cup RaisedStatuses
    /\ \A o1, o2 \in Ledger : o1.item = o2.item => o1.status = o2.status

\* the ledger of a finished run holds an outcome of a unit that raised and
\* one with a status of the remote job's own
C2_Witness ==
    /\ pc = "done"
    /\ \E o \in Ledger : o.status = "MONITOR_EXCEPTION"
    /\ \E o \in Ledger : o.status = "UNEXPECTED_STATUS"

\* C3: when the run returns, an item that failed or whose work unit raised,
\* in either stage, has kept no other item from its own terminal outcome in
\* the ledger; and nothing is raised out of a stage: the run raises only
\* before it has enumerated anything.
C3_FailureIsolated ==
    /\ pc = "done" =>
        \A i, j \in Items :
            (i # j /\ \E o \in OutcomesOf(i) : o.status # "SUCCESS")
                => \E o \in OutcomesOf(j) : o.status \in ListedStatuses \cup RaisedStatuses
    /\ pc = "raised" => dashboards = <<>> /\ remoteLog = {}

\* a unit raised in each stage and a third item was backed up
C3_Witness ==
    /\ pc = "done"
    /\ \E o \in Ledger : o.status = "START_EXCEPTION"
    /\ \E o \in Ledger : o.status = "MONITOR_EXCEPTION"
    /\ \E o \in Ledger : o.status = "SUCCESS"

\* C4: a job is polled, or a monitoring unit is taken up, only when every
\* submission unit of the run has completed; and a StartExportJob call is
\* made only while no monitoring unit has been taken up.
C4_Barrier ==
    /\ ((\E i \in Items : <<"describe", i>> \in remoteLog)
            \/ (\E j \in DOMAIN monitors : monitors[j].st # "pending"))
        => \A i \in DOMAIN starts : starts[i].st = "done"
    /\ ev.kind = "start" => \A j \in DOMAIN monitors : monitors[j].st = "pending"

\* two jobs were admitted and one of them has just been polled
C4_Witness ==
    /\ ev.kind = "poll"
    /\ Cardinality(DOMAIN monitors) = 2
    /\ Len(dashboards) = 3

\* C5: an item whose every StartExportJob call so far was answered with the
\* admission limit is called again until its 10th call and is then recorded
\* as EXPORT_START_FAILED without a job to monitor; no submission unit makes
\* an 11th call.
C5_StartCeiling ==
    /\ \A i \in DOMAIN starts : starts[i].st = "running" => starts[i].calls < 10
    /\ ev.kind = "start" => ev.n <= 10
    /\ (ev.kind = "start" /\ ev.limits = ev.n) =>
            IF ev.n < 10
            THEN ev.status = "" /\ starts[ev.item].st = "running"
            ELSE /\ ev.n = 10
                 /\ ev.status = "EXPORT_START_FAILED"
                 /\ \E o \in BagToSet(failed_starts) \cup Ledger :
                        o.item = ev.item /\ o.status = "EXPORT_START_FAILED"
                 /\ \A j \in BagToSet(jobs_to_monitor) : j.index # ev.item

\* the 10th call of an item was the 10th to meet the admission limit
C5_Witness ==
    /\ ev.kind = "start"
    /\ ev.n = 10
    /\ ev.limits = 10
    /\ ev.status = "EXPORT_START_FAILED"

\* C6: a job whose every poll so far returned HTTP 200 with a queued or
\* in-progress status is polled again until its 7th poll and is then
\* recorded as TIMEOUT; no monitoring unit makes an 8th poll.
C6_PollCeiling ==
    /\ \A i \in DOMAIN monitors : monitors[i].st = "running" => monitors[i].calls < 7
    /\ (ev.kind = "poll" /\ ev.limits = ev.n) =>
            IF ev.n < 7
            THEN ev.status = "" /\ monitors[ev.item].st = "running"
            ELSE /\ ev.n = 7
                 /\ ev.status = "TIMEOUT"
                 /\ \E o \in BagToSet(results) \cup Ledger :
                        o.item = ev.item /\ o.status = "TIMEOUT"

\* the 7th poll of a job was the 7th to find it in progress
C6_Witness ==
    /\ ev.kind = "poll"
    /\ ev.n = 7
    /\ ev.limits = 7
    /\ ev.status = "TIMEOUT"

\* a name the sinks can have written: a sanitized stem and the extension
WellFormedArtifactName(path) ==
    /\ EndsWith(path, QsExt)
    /\ Length(path) <= FILENAME_MAX_LENGTH + 3
    /\ Length(path) > 3
    /\ \A k \in DOMAIN path : path[k].c \notin InvalidChars \cup ControlChars

\* C7: when a bucket is configured and the upload of a fetched artifact
\* fails, the local write is attempted; if it succeeds the file is in the
\* local directory under a sanitized name with the extension (the name
\* sanitize_filename gives the item's name whenever sanitizing that name again
\* changes nothing) and the item's outcome is SUCCESS.
C7_Fallback ==
    (ev.kind = "poll" /\ S3_BUCKET_NAME # "" /\ ev.sink.fetched
        /\ ev.sink.uploadTried /\ ev.sink.key = <<>>) =>
        /\ ev.sink.writeTried
        /\ ev.sink.name # <<>> =>
            /\ ev.status = "SUCCESS"
            /\ \E o \in BagToSet(results) \cup Ledger :
                    o.item = ev.item /\ o.status = "SUCCESS"
            /\ [path |-> ev.sink.name, by |-> ev.item] \in localFiles
            /\ WellFormedArtifactName(ev.sink.name)
            /\ LET name == dashboards[ev.item].Name.v
               IN  sanitize_filename(sanitize_filename(name)) = sanitize_filename(name)
                        => ev.sink.name = ArtifactFilename(name)
            /\ \A o \in s3Objects : o.by # ev.item

\* the upload to the configured bucket failed and the local write succeeded
C7_Witness ==
    /\ ev.kind = "poll"
    /\ S3_BUCKET_NAME # ""
    /\ ev.sink.uploadTried
    /\ ev.sink.key = <<>>
    /\ ev.sink.name # <<>>
    /\ ev.status = "SUCCESS"

\* no account scope: none supplied to the run, none configured or resolved
\* earlier in the process, none resolvable from the ambient identity
NoAccountScope == request.account_id = "" /\ ACCOUNT_ID = "" /\ ~request.ambient

\* C8: in a sequence of runs in one process, a run raises to its caller
\* exactly when it has no account scope, and a run that raised has called
\* nothing remote.
C8_RaisesIffNoScope ==
    runs > 0 =>
        /\ pc = "raised" <=> NoAccountScope
        /\ pc = "raised" => dashboards = <<>> /\ remoteLog = {}

\* C9: in the scenario, B is admitted by its first call and C by its tenth
\* after nine admission limits, and the finished run's ledger is exactly
\* A: MISSING_ARN, B: SUCCESS, C: FAILED, reported as total 3, successful 1.
C9_Scenario ==
    /\ (ev.kind = "start" /\ ev.item = 2) => ev.n = 1 /\ ev.status = "STARTED"
    /\ (ev.kind = "start" /\ ev.item = 3 /\ ev.status # "") =>
            ev.n = 10 /\ ev.limits = 9 /\ ev.status = "STARTED"
    /\ (ev.kind = "poll") => ev.n = 1
    /\ pc = "done" =>
        /\ backup_results = SetToBag({Outcome(DashA.Name, "MISSING_ARN", 1),
                                      Outcome(DashB.Name, "SUCCESS", 2),
                                      Outcome(DashC.Name, "FAILED", 3)})
        /\ ReportTotal = 3
        /\ ReportSuccessful = 1

\* the run over A, B, C has returned and B's artifact was persisted
C9_Witness ==
    /\ profile = "scenario"
    /\ pc = "done"
    /\ ReportTotal = 3
    /\ \E f \in s3Objects \cup localFiles : f.by = 2
    /\ <<"start", 3>> \in remoteLog

\* C10: the artifact of a successful job is persisted under
\* sanitize_filename(item name) followed by ".qs": as the local file's name,
\* and as the last part of the key <prefix>/<date>/<filename>, or
\* <date>/<filename> without a prefix.
C10_ArtifactName ==
    (ev.kind = "poll" /\ ev.status = "SUCCESS") =>
        LET filename == Concat(sanitize_filename(dashboards[ev.item].Name.v), QsExt)
            dated    == Concat(Concat(DateFolder, Slash), filename)
        IN  /\ ev.sink.key # <<>> =>
                ev.sink.key = IF S3_KEY_PREFIX # <<>>
                              THEN Concat(Concat(RStrip(S3_KEY_PREFIX, "/"), Slash), dated)
                              ELSE dated
            /\ ev.sink.name # <<>> => ev.sink.name = filename

\* C11: sanitizing a sanitized name changes nothing.
C11_Idempotent == Len(returned) = 2 => returned[2] = returned[1]

\* C12 as stated: a name of more than 200 characters is sanitized to exactly
\* 200 characters, and the empty name to the fallback name.
C12_LongGives200 ==
    Len(returned) >= 1 =>
        /\ Length(argument) > 200 => Length(returned[1]) = 200
        /\ argument = <<>> => returned[1] = UnnamedDashboard

\* C12 amended: a sanitized name has 1 to 200 characters; it has exactly 200
\* when the name, without its leading and trailing spaces and periods, has
\* more than 200; and the empty name is sanitized to the fallback name.
C12_CappedAt200 ==
    Len(returned) >= 1 =>
        /\ Length(returned[1]) >= 1
        /\ Length(returned[1]) <= 200
        /\ Length(Strip(argument)) > 200 => Length(returned[1]) = 200
        /\ argument = <<>> => returned[1] = UnnamedDashboard

\* a name that is longer than 200 characters also when stripped was sanitized
C12_Witness ==
    /\ Len(returned) >= 1
    /\ Length(Strip(argument)) > 200
    /\ Length(returned[1]) = 200
    /\ Length(argument) > Length(Strip(argument))

\* C13: once the dashboards were listed, the run works on every dashboard of
\* the account or, the call having failed, on none.
C13_AllOrNothing ==
    pc \in {"phase1", "phase2", "done"} =>
        dashboards = accountDashboards \/ dashboards = <<>>

\* C14: when every remote call and every sleep returns and the pools'
\* threads are scheduled, the run returns, with a terminal outcome in the
\* ledger for every item, whatever the remote answers.
C14_Terminates ==
    <>(pc = "done" /\ \A i \in Items : OutcomesOf(i) # {})

\* a run has returned in which one item met the ceiling of 10 starts and
\* another the ceiling of 7 polls
C14_Witness ==
    /\ pc = "done"
    /\ \E o \in Ledger : o.status = "EXPORT_START_FAILED"
    /\ \E o \in Ledger : o.status = "TIMEOUT"

\* C15: in the monitoring stage the results grow only by the collecting
\* loop appending the one outcome of the one unit that has just completed,
\* whatever other units are running; at every moment there is exactly one
\* outcome per completed unit; and when the stage is left there is exactly
\* one per monitored job, all merged into the ledger.
C15_AppendSafe ==
    [][ /\ pc = "phase2" =>
            /\ BagCardinality(results) =
                    Cardinality({i \in DOMAIN monitors : monitors[i].st = "done"})
            /\ \A i \in DOMAIN monitors :
                    monitors[i].st = "done" =>
                        \E o \in BagToSet(results) :
                            o.item = i /\ CopiesIn(o, results) = 1
        /\ (pc = "phase2" /\ results' # results) =>
            \E i \in DOMAIN monitors :
                /\ monitors[i].st = "running"
                /\ monitors' = [monitors EXCEPT ![i] = Finished]
                /\ \E o \in BagToSet(results') :
                        o.item = i /\ results' = results (+) SetToBag({o})
        /\ (pc = "phase2" /\ pc' = "done") =>
            /\ BagCardinality(results) = BagCardinality(jobs_to_monitor)
            /\ backup_results' = backup_results (+) results
      ]_vars

\* one unit's outcome was appended while another unit was in its polls
C15_Witness ==
    /\ pc = "phase2"
    /\ BagCardinality(results) = 1
    /\ \E i, j \in DOMAIN monitors :
        /\ monitors[i].st = "done"
        /\ monitors[j].st = "running"
        /\ monitors[j].calls > 0

\* C16 as stated: when every call of an item so far met the admission limit
\* and another attempt follows, the sleep before that attempt, of index k,
\* is of 5 * 2^k.
C16_DelayBeforeAttempt ==
    (ev.kind = "start" /\ ev.limits = ev.n /\ ev.status = "") =>
        ev.slept = 5 * (2 ^ starts[ev.item].attempt)

\* C16 amended: when every call of an item so far met the admission limit,
\* the sleep after the failed attempt of index k, before the attempt of
\* index k + 1, is of 5 * 2^k for k from 0 to 8; nothing is slept before the
\* attempt of index 0 nor after the attempt of index 9.
C16_DelayAfterAttempt ==
    /\ ev.kind = "submit" => ev.slept = 0
    /\ (ev.kind = "start" /\ ev.limits = ev.n) =>
            IF ev.n < 10
            THEN ev.slept = 5 * (2 ^ (ev.n - 1)) /\ starts[ev.item].attempt = ev.n
            ELSE ev.slept = 0

\* the ninth call in a row met the admission limit and 5 * 2^8 was slept
C16_Witness ==
    /\ ev.kind = "start"
    /\ ev.n = 9
    /\ ev.limits = 9
    /\ ev.slept = 1280

\* C17: a poll, the n-th of its job, that finds the job queued or in
\* progress is followed by a sleep of 4 * 2^(n-1), and a unit that has slept
\* polls its job again.
C17_SleepThenRepoll ==
    (ev.kind = "poll" /\ ev.http = 200 /\ ev.resp \in InProgressStatuses) =>
        /\ ev.slept = 4 * (2 ^ (ev.n - 1))
        /\ ev.slept > 0 => monitors[ev.item].st = "running"

\* C18: a StartExportJob call that fails with an error other than the
\* admission limit, be it the first or one after retries, ends the item's
\* submission: nothing is slept, no further call is made, no job is handed
\* to monitoring and the outcome is EXPORT_START_FAILED.
C18_OtherErrorIsFinal ==
    (ev.kind = "start" /\ ev.resp = "other") =>
        /\ ev.status = "EXPORT_START_FAILED"
        /\ ev.slept = 0
        /\ starts[ev.item].st = "done"
        /\ \A j \in BagToSet(jobs_to_monitor) : j.index # ev.item
        /\ \E o \in BagToSet(failed_starts) \cup Ledger :
                o.item = ev.item /\ o.status = "EXPORT_START_FAILED"

\* an item's call failed with another error after two admission limits
C18_Witness ==
    /\ ev.kind = "start"
    /\ ev.resp = "other"
    /\ ev.n = 3
    /\ ev.limits = 2
    /\ ev.status = "EXPORT_START_FAILED"

\* C19: for an item with an empty Arn no remote call is ever made, its
\* submission unit ends with the outcome MISSING_ARN, and that is its outcome
\* when the run returns.
C19_MissingArn ==
    \A i \in Items :
        dashboards[i].Arn = Str(<<>>) =>
            /\ \A op \in {"start", "describe", "fetch"} : <<op, i>> \notin remoteLog
            /\ i \notin DOMAIN monitors
            /\ starts[i].st = "done" =>
                \E o \in BagToSet(failed_starts) \cup Ledger :
                    o.item = i /\ o.status = "MISSING_ARN"
            /\ pc = "done" => \A o \in OutcomesOf(i) : o.status = "MISSING_ARN"
            /\ pc = "done" => OutcomesOf(i) # {}

\* the run has returned over an item with an empty Arn and an item that was
\* started and polled
C19_Witness ==
    /\ pc = "done"
    /\ \E i \in Items : dashboards[i].Arn = Str(<<>>)
    /\ \E i \in Items : <<"describe", i>> \in remoteLog

\* C20: a poll whose HTTP status is not 200, whatever job status comes with
\* it and whichever poll of the job it is, ends the job's monitoring with the
\* outcome ERROR: nothing is slept, nothing fetched or stored, no further
\* poll is made.
C20_TransportError ==
    (ev.kind = "poll" /\ ev.http # 200) =>
        /\ ev.status = "ERROR"
        /\ ev.slept = 0
        /\ ev.sink = NoSink
        /\ monitors[ev.item].st = "done"
        /\ <<"fetch", ev.item>> \notin remoteLog
        /\ \A f \in s3Objects \cup localFiles : f.by # ev.item
        /\ \E o \in BagToSet(results) \cup Ledger :
                o.item = ev.item /\ o.status = "ERROR"

\* the third poll of a job returned HTTP 503 with the job status SUCCESSFUL
C20_Witness ==
    /\ ev.kind = "poll"
    /\ ev.http = 503
    /\ ev.resp = "SUCCESSFUL"
    /\ ev.n = 3
    /\ ev.status = "ERROR"


\* C21: an outcome is SUCCESS only when the poll returned HTTP 200 with the
\* job status SUCCESSFUL and the artifact was fetched and is in the bucket or
\* in the local directory; a successful job of a named item whose artifact
\* was not persisted (the fetch failed, or every write that was tried failed)
\* ends as DOWNLOAD_FAILED; and a job status that is none of the queued,
\* in-progress, SUCCESSFUL and FAILED ones ends the monitoring at once as
\* UNEXPECTED_STATUS.
C21_SuccessMeansPersisted ==
    ev.kind = "poll" =>
        /\ ev.status = "SUCCESS" =>
            /\ ev.http = 200 /\ ev.resp = "SUCCESSFUL"
            /\ ev.sink.fetched /\ ev.sink.ok
            /\ \/ [path |-> ev.sink.key, by |-> ev.item] \in s3Objects
               \/ [path |-> ev.sink.name, by |-> ev.item] \in localFiles
        /\ (ev.http = 200 /\ ev.resp = "SUCCESSFUL" /\ dashboards[ev.item].Name.t = "str"
                /\ ev.sink.key = <<>> /\ ev.sink.name = <<>>) =>
            /\ ev.status = "DOWNLOAD_FAILED"
            /\ \A f \in s3Objects \cup localFiles : f.by # ev.item
        /\ (ev.http = 200
                /\ ev.resp \notin InProgressStatuses \cup {"SUCCESSFUL", "FAILED"}) =>
            /\ ev.status = "UNEXPECTED_STATUS"
            /\ ev.slept = 0
            /\ monitors[ev.item].st = "done"

\* the artifact of a successful job was fetched, and neither the upload nor
\* the local write succeeded
C21_Witness ==
    /\ ev.kind = "poll"
    /\ ev.resp = "SUCCESSFUL"
    /\ ev.sink.fetched
    /\ ev.sink.uploadTried
    /\ ev.sink.writeTried
    /\ ~ev.sink.ok
    /\ ev.status = "DOWNLOAD_FAILED"

\* C22: a successful job of a named item whose download URL is empty, or
\* starts with neither http:// nor https://, ends as DOWNLOAD_FAILED, and
\* nothing is fetched, uploaded or written for it.
C22_BadUrl ==
    (ev.kind = "poll" /\ ev.http = 200 /\ ev.resp = "SUCCESSFUL"
        /\ dashboards[ev.item].Name.t = "str"
        /\ (ev.url = <<>>
            \/ (Prefix(ev.url, 7) # HttpScheme /\ Prefix(ev.url, 8) # HttpsScheme))) =>
        /\ ev.sink = NoSink
        /\ <<"fetch", ev.item>> \notin remoteLog
        /\ \A f \in s3Objects \cup localFiles : f.by # ev.item
        /\ ev.status = "DOWNLOAD_FAILED"

\* a successful job came with an ftp:// download URL
C22_Witness ==
    /\ ev.kind = "poll"
    /\ ev.resp = "SUCCESSFUL"
    /\ ev.http = 200
    /\ ev.url = UrlFtp
    /\ ev.status = "DOWNLOAD_FAILED"


\* C23: at every moment at most 3 submission units are executing, calling
\* StartExportJob or sleeping before another call, and none is outside the
\* submission stage.
C23_StartCeiling ==
    /\ Cardinality({i \in DOMAIN starts : starts[i].st = "running"}) <= 3
    /\ pc # "phase1" => \A i \in DOMAIN starts : starts[i].st # "running"

\* three units are executing, one of them after an admission limit, and a
\* fourth waits for a worker
C23_Witness ==
    /\ Len(dashboards) >= 4
    /\ Cardinality({i \in DOMAIN starts : starts[i].st = "running"}) = 3
    /\ \E i \in DOMAIN starts : starts[i].st = "running" /\ starts[i].calls = 1
    /\ \E i \in DOMAIN starts : starts[i].st = "pending"


\* C27: the jobs handed to monitoring whose dashboards have different ARNs
\* have different job ids.
C27_DistinctJobIds ==
    \A j1, j2 \in BagToSet(jobs_to_monitor) :
        dashboards[j1.index].Arn # dashboards[j2.index].Arn => j1.job_id # j2.job_id

\* C29: when the run returns, there are as many artifacts in the bucket and
\* the local directory as SUCCESS outcomes in the ledger.
C29_OneArtifactPerSuccess ==
    pc = "done" => Cardinality(s3Objects) + Cardinality(localFiles) = ReportSuccessful


\* C24: while no dashboard is enumerated neither pool has a work unit, and
\* a run that enumerated none returns with an empty ledger having called
\* nothing remote but the listing and written nothing.
C24_EmptyRun ==
    dashboards = <<>> =>
        /\ pc \notin {"phase1", "phase2"}
        /\ DOMAIN starts = {}
        /\ DOMAIN monitors = {}
        /\ \A call \in remoteLog : call[1] = "list"
        /\ s3Objects = {} /\ localFiles = {}
        /\ pc = "done" => backup_results = EmptyBag

\* the listing was made and gave no dashboard, and the run has returned
C24_Witness ==
    /\ pc = "done"
    /\ dashboards = <<>>
    /\ <<"list", 0>> \in remoteLog

\* C25: monitoring begins only with a job to monitor and with the failed
\* starts merged into the ledger, which holds exactly them throughout the
\* stage; and a run of which no item was started returns after the
\* submission stage, no monitoring unit created, no job described, its
\* ledger exactly the failed starts, one for each item.
C25_MergeThenMonitor ==
    /\ pc = "phase2" =>
        /\ jobs_to_monitor # EmptyBag
        /\ DOMAIN monitors # {}
        /\ backup_results = failed_starts
    /\ (\E i \in DOMAIN monitors : monitors[i].st # "pending") =>
            \A o \in BagToSet(failed_starts) :
                CopiesIn(o, backup_results) = CopiesIn(o, failed_starts)
    /\ (pc \notin {"enumerate", "phase1"} /\ dashboards # <<>> /\ jobs_to_monitor = EmptyBag) =>
        /\ pc = "done"
        /\ DOMAIN monitors = {}
        /\ \A call \in remoteLog : call[1] \notin {"describe", "fetch"}
        /\ backup_results = failed_starts
        /\ BagCardinality(failed_starts) = Len(dashboards)

\* a run over two items or more returned after the submission stage, one
\* item without Arn, another refused by the service
C25_Witness ==
    /\ pc = "done"
    /\ jobs_to_monitor = EmptyBag
    /\ Len(dashboards) >= 2
    /\ \E o \in Ledger : o.status = "MISSING_ARN"
    /\ \E o \in Ledger : o.status = "EXPORT_START_FAILED"


\* C26: in a sequence of runs in one process the ledger holds outcomes of
\* the most recent run only: it is empty when that run raised at its
\* precondition or has not enumerated yet, and otherwise every outcome in
\* it is of an item that run enumerated, at most one for each.
C26_LedgerOfLatestRun ==
    runs > 0 =>
        /\ pc \in {"raised", "enumerate"} => backup_results = EmptyBag
        /\ \A o \in Ledger :
            /\ o.item \in Items
            /\ o.name = dashboards[o.item].Name
            /\ CopiesIn(o, backup_results) = 1


\* C28: whatever max_workers argument the run is given, absent or any
\* integer, the monitoring stage has at no moment more units running than
\* the argument, min(32, n) when it is absent, the run does not raise once
\* it has jobs to monitor, and when it has returned there is one outcome
\* for each job.
C28_AnyCeiling ==
    /\ pc = "phase2" =>
        Cardinality(InPool(monitors)) <=
            (IF request.max_workers.given THEN request.max_workers.value
             ELSE IF BagCardinality(jobs_to_monitor) < 32
                  THEN BagCardinality(jobs_to_monitor) ELSE 32)
    /\ jobs_to_monitor # EmptyBag => pc # "raised"
    /\ pc = "done" => BagCardinality(results) = BagCardinality(jobs_to_monitor)


\* C30: in the monitoring stage an artifact fetch is made only by a poll
\* of the same job that was answered transport OK and SUCCESSFUL, that
\* poll ends the job's unit, and for a job whose unit has ended no
\* describe or fetch is made and no artifact persisted any more; so each
\* job's artifact is fetched at most once.
C30_FetchOnce ==
    [][ pc = "phase2" =>
          /\ \A i \in DOMAIN monitors :
                <<"fetch", i>> \in remoteLog => monitors[i].st = "done"
          /\ pc' = "phase2" =>
               \A i \in DOMAIN monitors :
                  /\ (<<"fetch", i>> \in remoteLog' /\ <<"fetch", i>> \notin remoteLog) =>
                        /\ ev'.kind = "poll" /\ ev'.item = i
                        /\ ev'.http = 200 /\ ev'.resp = "SUCCESSFUL"
                        /\ <<"describe", i>> \in remoteLog'
                        /\ monitors'[i].st = "done"
                  /\ monitors[i].st = "done" =>
                        /\ monitors'[i].st = "done"
                        /\ <<"describe", i>> \in remoteLog /\ <<"describe", i>> \in remoteLog'
                        /\ <<"fetch", i>> \in remoteLog' <=> <<"fetch", i>> \in remoteLog
                        /\ {f \in s3Objects' : f.by = i} \subseteq {f \in s3Objects : f.by = i}
                        /\ {f \in localFiles' : f.by = i} \subseteq {f \in localFiles : f.by = i}
                        /\ ~(ev'.kind = "poll" /\ ev'.item = i /\ ev' # ev)
      ]_vars

\* a job's second poll or a later one was answered SUCCESSFUL, its
\* artifact was fetched and its unit has ended, while another unit, that
\* has polled already, is still running
C30_Witness ==
    /\ pc = "phase2"
    /\ ev.kind = "poll" /\ ev.n >= 2 /\ ev.sink.fetched
    /\ monitors[ev.item].st = "done"
    /\ \E j \in DOMAIN monitors : monitors[j].st = "running" /\ monitors[j].calls >= 1

====
